---- MODULE Spec2Model ----
(***************************************************************************)
(* A model of minbpe.c: a byte-pair-encoding tokenizer with a Merge Table  *)
(* (tokenizer->merges, tokenizer->num_merges) and a Vocabulary Store       *)
(* (tokenizer->vocab), and the operations train, encode and decode, with   *)
(* the helpers find_pair_index, token_counts and merge.                    *)
(*                                                                         *)
(* Loops of train and encode are modelled one iteration at a time: each    *)
(* iteration is a counting step (token_counts) followed by a selecting and *)
(* merging step.  decode is one step.  Between calls the caller holds the  *)
(* results of the last encode or decode until it releases its buffers.     *)
(*                                                                         *)
(* Spec follows the call sequence of main: create_tokenizer, one train,    *)
(* then encode and decode calls in any number and order.  SpecRetrain      *)
(* calls train any number of times on the same tokenizer.                  *)
(*                                                                         *)
(* size_t values are kept as their two's complement representative, so     *)
(* that SIZE_MAX is -1 and 255 - 256 is -1; SizeLess is the unsigned       *)
(* comparison on representatives.                                          *)
(*                                                                         *)
(* token_counts searches its size_t table through a cast to a Merge        *)
(* pointer.  What find_pair_index then reads depends on the width of       *)
(* size_t, so the build is part of the state: "ILP32" (size_t as wide as   *)
(* int, the table has the layout of Merge) and "LP64" (size_t twice as     *)
(* wide as int, little endian; every Merge read through the cast straddles *)
(* the entries of the table; a big endian build reads the same zeros in    *)
(* the other half of each struct and finds the same).                      *)
(*                                                                         *)
(* A store through a NULL tokenizer->merges ends the program ("crashed").  *)
(* A store past the end of a working buffer leaves the program in a state  *)
(* nothing is known about ("undefined").                                   *)
(***************************************************************************)
EXTENDS Integers, Sequences, FiniteSets, TLC

INITIAL_VOCAB_SIZE == 256
MAX_TEXT_SIZE == 1024

\* Bounds of the model: the longest text passed to train and encode, the
\* largest vocab_size passed to train, the longest ids passed to decode.
MaxLen == 4
MaxVocab == 258
MaxIds == 3

\* The bytes of the texts, 'a' and 'b' (a C string holds no byte 0)
Alphabet == {97, 98}
Builds == {"ILP32", "LP64"}

SeqsUpTo(S, n) == UNION {[1..k -> S] : k \in 1..n}
Texts == SeqsUpTo(Alphabet, MaxLen)
VocabSizes == (INITIAL_VOCAB_SIZE - 1)..MaxVocab

VARIABLES
    build,        \* the data model the program was compiled for
    merges,       \* tokenizer->merges: the entries written so far, rank r at r+1
    merges_ptr,   \* tokenizer->merges as a pointer: "NULL" or "alloc"
    num_merges,   \* tokenizer->num_merges
    vocab,        \* tokenizer->vocab: id -> the bytes stored for it
    pc,           \* position of the running call; "idle", "encoded" and "decoded"
                  \* between calls; "crashed" and "undefined" are final
    trained,      \* a train call has been made on this tokenizer
    text,         \* train: the text argument
    vocab_size,   \* train: the vocab_size argument
    n_merges,     \* train: the local num_merges (size_t)
    ids,          \* train: the working token sequence
    i,            \* train: the loop counter
    pair_counts,  \* train/encode: the table token_counts filled last
    enc_text,     \* encode: the text argument
    enc_ids,      \* encode: the ids buffer, *ids_size elements
    dec_ids,      \* decode: the ids argument
    dec_text,     \* decode: the bytes written to text
    err           \* the error the last call reported to its caller

vars == <<build, merges, merges_ptr, num_merges, vocab, pc, trained,
          text, vocab_size, n_merges, ids, i, pair_counts,
          enc_text, enc_ids, dec_ids, dec_text, err>>

tok == <<merges, merges_ptr, num_merges, vocab>>
trainLocals == <<text, vocab_size, n_merges, ids, i>>
encLocals == <<enc_text, enc_ids>>
decLocals == <<dec_ids, dec_text>>

\* train, encode and decode return void and have no other way to report an
\* error: no call changes err
NoError == err' = err

----------------------------------------------------------------------------
\* Helpers

Min(S) == CHOOSE x \in S : \A y \in S : x <= y

\* a < b on size_t values held as two's complement representatives
SizeLess(a, b) == IF (a >= 0) = (b >= 0) THEN a < b ELSE a >= 0

SIZE_MAX == -1

IntPair(f, s) == [first |-> f, second |-> s]

\* The int at cell k (from 0) of a size_t array read as an array of int.
\* Every value stored in the table is below 2^31, so the high half of a
\* 64-bit size_t is 0.
IntAt(b, arr, k) ==
    IF b = "ILP32" THEN arr[k + 1]
    ELSE IF k % 2 = 0 THEN arr[(k \div 2) + 1] ELSE 0

IntCells(b, arr) == IF b = "ILP32" THEN Len(arr) ELSE 2 * Len(arr)

\* pair_counts cast to a Merge pointer: the Merge structs (three ints each)
\* lying over the written part of the table
AsMerges(b, arr) ==
    [m \in 1..(IntCells(b, arr) \div 3) |->
        [pair |-> IntPair(IntAt(b, arr, 3 * (m - 1)), IntAt(b, arr, 3 * (m - 1) + 1)),
         idx  |-> IntAt(b, arr, 3 * (m - 1) + 2)]]

find_pair_index(ms, merges_size, pair) ==
    LET hits == {k \in 0..(merges_size - 1) : ms[k + 1].pair = pair}
    IN  IF hits = {} THEN merges_size ELSE Min(hits)

\* One iteration of token_counts' loop, at index k (from 0)
token_counts_step(b, s, k, pcs) ==
    LET pair  == IntPair(s[k + 1], s[k + 2])
        size  == Len(pcs) \div 3
        index == find_pair_index(AsMerges(b, pcs), size, pair)
    IN  IF index = size
        THEN pcs \o <<pair.first, pair.second, 1>>
        ELSE [pcs EXCEPT ![index * 3 + 3] = @ + 1]

\* The iterations lo .. hi-1 of the loop, in order.  They are evaluated in
\* two halves, the first half before the second (the test on first forces
\* it), to keep the evaluation shallow on long sequences.
RECURSIVE token_counts_for(_, _, _, _, _)
token_counts_for(b, s, lo, hi, pcs) ==
    IF hi <= lo THEN pcs
    ELSE IF hi = lo + 1 THEN token_counts_step(b, s, lo, pcs)
    ELSE LET mid   == (lo + hi) \div 2
             first == token_counts_for(b, s, lo, mid, pcs)
         IN  IF Len(first) >= 0 THEN token_counts_for(b, s, mid, hi, first) ELSE first

\* The table as a flat sequence first, second, count, ...; pair_counts_size
\* is a third of its length.
token_counts(b, s) == token_counts_for(b, s, 0, Len(s) - 1, <<>>)

pair_counts_size(pcs) == Len(pcs) \div 3

\* merge's loop with the bound on i one too low: a pair at the end of the
\* sequence is not replaced
merge_step_early(s, pair, idx, st) ==
    IF ~(st.k < Len(s)) THEN st
    ELSE IF s[st.k + 1] = pair.first /\ st.k < Len(s) - 2 /\ s[st.k + 2] = pair.second
         THEN [k |-> st.k + 2, new_ids |-> Append(st.new_ids, idx)]
         ELSE [k |-> st.k + 1, new_ids |-> Append(st.new_ids, s[st.k + 1])]

\* One iteration of merge's loop; st.k is the loop index (from 0).  Past the
\* end of the sequence the loop has stopped and nothing changes.
merge_step(s, pair, idx, st) ==
    IF ~(st.k < Len(s)) THEN st
    ELSE IF s[st.k + 1] = pair.first /\ st.k < Len(s) - 1 /\ s[st.k + 2] = pair.second
         THEN [k |-> st.k + 2, new_ids |-> Append(st.new_ids, idx)]
         ELSE [k |-> st.k + 1, new_ids |-> Append(st.new_ids, s[st.k + 1])]

\* n iterations of the loop, in order
RECURSIVE merge_for(_, _, _, _, _)
merge_for(s, pair, idx, n, st) ==
    IF n <= 0 THEN st
    ELSE IF n = 1 THEN merge_step(s, pair, idx, st)
    ELSE LET first == merge_for(s, pair, idx, n \div 2, st)
         IN  IF first.k >= 0 THEN merge_for(s, pair, idx, n - (n \div 2), first) ELSE first

\* The loop runs at most once per element
merge(s, pair, idx) == merge_for(s, pair, idx, Len(s), [k |-> 0, new_ids |-> <<>>]).new_ids

\* One iteration of train's scan of the table for the highest count, at
\* entry e (from 0)
train_select_step(pcs, e, st) ==
    LET pair  == IntPair(pcs[3 * e + 1], pcs[3 * e + 2])
        count == pcs[3 * e + 3]
    IN  IF count > st.max_count
        THEN [max_count |-> count, best_pair |-> pair]
        ELSE st

RECURSIVE train_select_for(_, _, _, _)
train_select_for(pcs, lo, hi, st) ==
    IF hi <= lo THEN st
    ELSE IF hi = lo + 1 THEN train_select_step(pcs, lo, st)
    ELSE LET mid   == (lo + hi) \div 2
             first == train_select_for(pcs, lo, mid, st)
         IN  IF first.max_count >= 0 THEN train_select_for(pcs, mid, hi, first) ELSE first

train_select(pcs) ==
    train_select_for(pcs, 0, pair_counts_size(pcs),
                     [max_count |-> 0, best_pair |-> IntPair(0, 0)])

\* One iteration of encode's scan of the table for the pair of lowest rank
encode_select_step(ms, nm, pcs, e, st) ==
    LET pair == IntPair(pcs[3 * e + 1], pcs[3 * e + 2])
        idx  == find_pair_index(ms, nm, pair)
    IN  IF idx < nm /\ SizeLess(idx, st.min_merge_idx)
        THEN [min_merge_idx |-> idx, best_pair |-> pair, best_idx |-> idx]
        ELSE st

RECURSIVE encode_select_for(_, _, _, _, _, _)
encode_select_for(ms, nm, pcs, lo, hi, st) ==
    IF hi <= lo THEN st
    ELSE IF hi = lo + 1 THEN encode_select_step(ms, nm, pcs, lo, st)
    ELSE LET mid   == (lo + hi) \div 2
             first == encode_select_for(ms, nm, pcs, lo, mid, st)
         IN  IF first.best_idx >= 0 THEN encode_select_for(ms, nm, pcs, mid, hi, first)
             ELSE first

encode_select(ms, nm, pcs) ==
    encode_select_for(ms, nm, pcs, 0, pair_counts_size(pcs),
                      [min_merge_idx |-> SIZE_MAX, best_pair |-> IntPair(-1, -1),
                       best_idx |-> 0])

\* decode with its loop stopping one id early
decode_short(v, s) == [k \in 1..(Len(s) - 1) |-> v[s[k]][1]]

\* The bytes decode writes to text[0 .. ids_size-1]
decode(v, s) == [k \in 1..Len(s) |-> v[s[k]][1]]

\* The two bytes train stores for a new id (unsigned char)
vocab_entry(pair) == <<pair.first % 256, pair.second % 256>>

\* The fixed-size working buffers: pair_counts[MAX_TEXT_SIZE * 3] in train
\* and encode, new_ids[MAX_TEXT_SIZE] in merge.  Nothing checks them; a
\* store past their end is undefined behaviour.
pair_counts_overrun(pcs) == pair_counts_size(pcs) > MAX_TEXT_SIZE
new_ids_overrun(new_ids) == Len(new_ids) > MAX_TEXT_SIZE

\* train's loop left as soon as no pair repeats
train_break_norepeat(max_count) == max_count <= 1

\* train leaves its loop early when no pair was counted
train_break(max_count) == max_count = 0

\* The value train leaves in tokenizer->num_merges when it returns, having
\* learned that many rules: train has no assignment to the field
train_num_merges(old, learned) == old

----------------------------------------------------------------------------
\* create_tokenizer

Init ==
    /\ build \in Builds
    /\ merges = <<>>
    /\ merges_ptr = "NULL"
    /\ num_merges = 0
    /\ vocab = [b \in 0..(INITIAL_VOCAB_SIZE - 1) |-> <<b>>]
    /\ pc = "idle"
    /\ trained = FALSE
    /\ text = <<>>
    /\ vocab_size = 0
    /\ n_merges = 0
    /\ ids = <<>>
    /\ i = 0
    /\ pair_counts = <<>>
    /\ enc_text = <<>>
    /\ enc_ids = <<>>
    /\ dec_ids = <<>>
    /\ dec_text = <<>>
    /\ err = "none"

----------------------------------------------------------------------------
\* train

\* malloc(num_merges * sizeof(Merge)): a request that wrapped around fails,
\* a request of 0 bytes returns NULL or a block, as the library chooses
malloc_merges(n) ==
    IF n < 0 THEN {"NULL"} ELSE IF n = 0 THEN {"NULL", "alloc"} ELSE {"alloc"}

TrainStart(t, v) ==
    /\ NoError
    /\ pc = "idle"
    /\ trained' = TRUE
    /\ text' = t
    /\ vocab_size' = v
    /\ n_merges' = v - INITIAL_VOCAB_SIZE
    /\ ids' = t
    /\ merges' = <<>>
    /\ merges_ptr' \in malloc_merges(v - INITIAL_VOCAB_SIZE)
    /\ i' = 0
    /\ pair_counts' = <<>>
    /\ pc' = "train_loop"
    /\ UNCHANGED <<build, num_merges, vocab, encLocals, decLocals>>

\* the one train call of main
TrainFresh(t, v) == ~trained /\ TrainStart(t, v)

TrainCount ==
    /\ NoError
    /\ pc = "train_loop"
    /\ SizeLess(i, n_merges)
    /\ pair_counts' = token_counts(build, ids)
    /\ pc' = IF pair_counts_overrun(pair_counts') THEN "undefined" ELSE "train_counted"
    /\ UNCHANGED <<build, tok, trained, trainLocals, encLocals, decLocals>>

TrainReturn ==
    /\ NoError
    /\ pc = "train_loop"
    /\ ~SizeLess(i, n_merges)
    /\ num_merges' = train_num_merges(num_merges, Len(merges))
    /\ pc' = "idle"
    /\ UNCHANGED <<build, merges, merges_ptr, vocab, trained, trainLocals, pair_counts,
                   encLocals, decLocals>>

TrainMerge ==
    /\ NoError
    /\ pc = "train_counted"
    /\ LET sel == train_select(pair_counts)
           idx == INITIAL_VOCAB_SIZE + i
       IN  IF train_break(sel.max_count)
           THEN /\ num_merges' = train_num_merges(num_merges, Len(merges))
                /\ pc' = "idle"
                /\ UNCHANGED <<merges, vocab, ids, i>>
           ELSE /\ ids' = merge(ids, sel.best_pair, idx)
                /\ IF new_ids_overrun(ids')
                   THEN /\ pc' = "undefined"
                        /\ UNCHANGED <<merges, vocab, i, num_merges>>
                   ELSE IF merges_ptr = "NULL"
                   THEN \* the store to tokenizer->merges[i] goes through NULL
                        /\ pc' = "crashed"
                        /\ UNCHANGED <<merges, vocab, i, num_merges>>
                   ELSE /\ merges' = Append(merges, [pair |-> sel.best_pair, idx |-> idx])
                        /\ vocab' = [k \in 0..idx |->
                                        IF k = idx THEN vocab_entry(sel.best_pair)
                                        ELSE vocab[k]]
                        /\ i' = i + 1
                        /\ pc' = "train_loop"
                        /\ UNCHANGED num_merges
    /\ UNCHANGED <<build, merges_ptr, trained, text, vocab_size, n_merges, pair_counts,
                   encLocals, decLocals>>

----------------------------------------------------------------------------
\* encode

EncodeStart(t) ==
    /\ NoError
    /\ pc = "idle"
    /\ enc_text' = t
    /\ enc_ids' = t
    /\ pair_counts' = <<>>
    /\ pc' = "encode_loop"
    /\ UNCHANGED <<build, tok, trained, trainLocals, decLocals>>

EncodeCount ==
    /\ NoError
    /\ pc = "encode_loop"
    /\ Len(enc_ids) >= 2
    /\ pair_counts' = token_counts(build, enc_ids)
    /\ pc' = IF pair_counts_overrun(pair_counts') THEN "undefined" ELSE "encode_counted"
    /\ UNCHANGED <<build, tok, trained, trainLocals, encLocals, decLocals>>

EncodeReturn ==
    /\ NoError
    /\ pc = "encode_loop"
    /\ ~(Len(enc_ids) >= 2)
    /\ pc' = "encoded"
    /\ UNCHANGED <<build, tok, trained, trainLocals, pair_counts, encLocals, decLocals>>

EncodeMerge ==
    /\ NoError
    /\ pc = "encode_counted"
    /\ LET best == encode_select(merges, num_merges, pair_counts)
       IN  IF best.best_pair.first = -1
           THEN /\ pc' = "encoded"
                /\ UNCHANGED enc_ids
           ELSE /\ enc_ids' = merge(enc_ids, best.best_pair, merges[best.best_idx + 1].idx)
                /\ pc' = IF new_ids_overrun(enc_ids') THEN "undefined" ELSE "encode_loop"
    /\ UNCHANGED <<build, tok, trained, trainLocals, pair_counts, enc_text, decLocals>>

----------------------------------------------------------------------------
\* decode

\* The ids a caller makes up: any short sequence of ids that have a
\* vocabulary entry
KnownIds == Alphabet \cup {k \in DOMAIN vocab : k >= INITIAL_VOCAB_SIZE}
DecodeInputs == SeqsUpTo(KnownIds, MaxIds)

Decode(s) ==
    /\ NoError
    /\ pc = "idle"
    /\ dec_ids' = s
    /\ dec_text' = decode(vocab, s)
    /\ pc' = "decoded"
    /\ UNCHANGED <<build, tok, trained, trainLocals, pair_counts, encLocals>>

\* decode called on the ids encode has just produced, as main does
DecodeEncoded ==
    /\ NoError
    /\ pc = "encoded"
    /\ dec_ids' = enc_ids
    /\ dec_text' = decode(vocab, enc_ids)
    /\ pc' = "decoded"
    /\ UNCHANGED <<build, tok, trained, trainLocals, pair_counts, encLocals>>

\* The caller is done with the results of encode and decode
Release ==
    /\ NoError
    /\ pc \in {"encoded", "decoded"}
    /\ enc_text' = <<>> /\ enc_ids' = <<>> /\ dec_ids' = <<>> /\ dec_text' = <<>>
    /\ pair_counts' = <<>>
    /\ pc' = "idle"
    /\ UNCHANGED <<build, tok, trained, trainLocals>>

----------------------------------------------------------------------------

Next ==
    \/ \E t \in Texts, v \in VocabSizes : TrainFresh(t, v)
    \/ TrainCount
    \/ TrainReturn
    \/ TrainMerge
    \/ \E t \in Texts : EncodeStart(t)
    \/ EncodeCount
    \/ EncodeReturn
    \/ EncodeMerge
    \/ \E s \in DecodeInputs : Decode(s)
    \/ DecodeEncoded
    \/ Release

Spec == Init /\ [][Next]_vars

NextRetrain ==
    \/ \E t \in Texts, v \in VocabSizes : TrainStart(t, v)
    \/ TrainCount
    \/ TrainReturn
    \/ TrainMerge

SpecRetrain == Init /\ [][NextRetrain]_vars

----------------------------------------------------------------------------
\* Notions of the specification the properties are stated with

Range(s) == {s[k] : k \in DOMAIN s}

TrainPos == {"train_loop", "train_counted"}
EncodePos == {"encode_loop", "encode_counted"}

\* train has returned from a call that asked for at least one merge
TrainCompleted == trained /\ pc \notin (TrainPos \cup {"crashed", "undefined"})
                    /\ vocab_size > INITIAL_VOCAB_SIZE

PairAt(s, k) == IntPair(s[k], s[k + 1])
Positions(s) == 1..(Len(s) - 1)

\* number of adjacent occurrences of pair in s, overlapping ones included
Occurrences(s, pair) == Cardinality({k \in Positions(s) : PairAt(s, k) = pair})

NoRepeat(s) == \A k \in Positions(s) : Occurrences(s, PairAt(s, k)) = 1

\* the pair of maximal count whose first occurrence is leftmost
MostFrequent(s) ==
    PairAt(s, Min({k \in Positions(s) :
                      \A j \in Positions(s) :
                          Occurrences(s, PairAt(s, j)) <= Occurrences(s, PairAt(s, k))}))

\* the entries of a pair-count table, as a set of <<pair, count>>
Entries(pcs) ==
    {<<IntPair(pcs[3 * e + 1], pcs[3 * e + 2]), pcs[3 * e + 3]>> :
        e \in 0..(pair_counts_size(pcs) - 1)}

\* the bytes an id stands for according to the Merge Table ms
RECURSIVE Expansion(_, _)
Expansion(ms, id) ==
    IF id < INITIAL_VOCAB_SIZE THEN <<id>>
    ELSE LET rule == ms[id - INITIAL_VOCAB_SIZE + 1]
         IN  Expansion(ms, rule.pair.first) \o Expansion(ms, rule.pair.second)

RECURSIVE Concat(_, _)
Concat(ms, s) == IF s = <<>> THEN <<>> ELSE Expansion(ms, Head(s)) \o Concat(ms, Tail(s))

\* ranks of the rules whose pair is adjacent somewhere in s
PresentRanks(ms, s) == {r \in 0..(Len(ms) - 1) : Occurrences(s, ms[r + 1].pair) > 0}

----------------------------------------------------------------------------
\* C1: on a tokenizer whose train(text0, V) call has completed (V >= 257),
\* decoding the ids encode produced for a non-empty text made of bytes of
\* text0 gives back that text, byte for byte.
C1_RoundTrip ==
    (/\ pc = "decoded"
     /\ enc_text # <<>>
     /\ dec_ids = enc_ids
     /\ TrainCompleted
     /\ Range(enc_text) \subseteq Range(text))
    => dec_text = enc_text

\* a round trip of a text in which a pair with a learned rule is adjacent
C1_Witness ==
    /\ pc = "decoded"
    /\ enc_text # <<>>
    /\ dec_ids = enc_ids
    /\ TrainCompleted
    /\ Range(enc_text) \subseteq Range(text)
    /\ PresentRanks(merges, enc_text) # {}
    /\ dec_text = enc_text

\* C2: after train(T, V) on a fresh tokenizer (V >= 257), encode(T) returns
\* the token sequence the training loop ended with.
C2_EncodeReplaysTraining ==
    (pc = "encoded" /\ TrainCompleted /\ enc_text = text) => enc_ids = ids

\* C3: decode(ids) is the concatenation, in order, of the complete expansion
\* of each id.
C3_DecodeFullExpansion ==
    (pc = "decoded" /\ TrainCompleted) => dec_text = Concat(merges, dec_ids)

\* C4: in every iteration of encode's loop, if some adjacent pair of the
\* sequence has a rule in the Merge Table, the pair of lowest rank among them
\* is merged, and if none has, encode stops.
C4_EncodeLowestRank ==
    [][pc = "encode_counted" /\ pc' # "encode_counted" =>
          LET ranks == PresentRanks(merges, enc_ids)
          IN  IF ranks = {}
              THEN pc' = "encoded" /\ enc_ids' = enc_ids
              ELSE enc_ids' = merge(enc_ids, merges[Min(ranks) + 1].pair,
                                    INITIAL_VOCAB_SIZE + Min(ranks))]_vars

C6_InvalidVocabSize ==
    [][(vocab_size' <= INITIAL_VOCAB_SIZE /\ (pc \in TrainPos \/ pc' \in TrainPos)) =>
          /\ merges' = merges
          /\ vocab' = vocab
          /\ ids' = text'
          /\ pc' # "crashed"
          /\ pc' = "idle" => err' = "InvalidVocabSize"]_vars

\* C7: train and encode on a text of exactly MAX_TEXT_SIZE bytes succeed; on
\* a text one byte longer they report CapacityExceeded; no working buffer is
\* written past its end.
C7_Capacity ==
    [][/\ pc' # "undefined"
       /\ (pc \in TrainPos /\ pc' = "idle") =>
             err' = IF Len(text) > MAX_TEXT_SIZE THEN "CapacityExceeded" ELSE "none"
       /\ (pc \in EncodePos /\ pc' = "encoded") =>
             err' = IF Len(enc_text) > MAX_TEXT_SIZE THEN "CapacityExceeded" ELSE "none"]_vars

\* C8: during and after every train run the rule at rank r has
\* new_id = 256 + r, no pair is recorded at two ranks, and no recorded pair
\* is adjacent in the training sequence any more.
C8_MergeTable ==
    /\ \A r \in 1..Len(merges) : merges[r].idx = INITIAL_VOCAB_SIZE + (r - 1)
    /\ \A r1, r2 \in 1..Len(merges) : merges[r1].pair = merges[r2].pair => r1 = r2
    /\ \A r \in 1..Len(merges) : Occurrences(ids, merges[r].pair) = 0

\* a train run that has recorded two rules, the second with a learned id in
\* its pair
C8_Witness ==
    /\ Len(merges) >= 2
    /\ merges[2].pair.first >= INITIAL_VOCAB_SIZE \/ merges[2].pair.second >= INITIAL_VOCAB_SIZE

\* C9: in each iteration of the loop of train (V >= 257) the table of the pair counter holds
\* every distinct adjacent pair of the sequence once, with its number of
\* occurrences, and the pair merged is the most frequent one, the leftmost
\* among equals.
C9_TrainingSelection ==
    [][(pc = "train_counted" /\ vocab_size > INITIAL_VOCAB_SIZE) =>
          /\ Entries(pair_counts) =
                {<<PairAt(ids, k), Occurrences(ids, PairAt(ids, k))>> : k \in Positions(ids)}
          /\ pair_counts_size(pair_counts) = Cardinality(Entries(pair_counts))
          /\ Len(merges') = Len(merges) + 1 =>
                merges'[Len(merges')].pair = MostFrequent(ids)]_vars

\* C10: the expansion stored for every id learned by train (V >= 257) is the
\* expansion stored for the first id of its pair followed by the one stored
\* for the second.
C10_VocabularyGrowth ==
    \A r \in 1..Len(merges) :
        vocab[merges[r].idx] = vocab[merges[r].pair.first] \o vocab[merges[r].pair.second]

----------------------------------------------------------------------------
\* Calls on texts that fill the working buffers exactly, and on texts one
\* byte longer
CapTexts == {[k \in 1..n |-> 97] : n \in {MAX_TEXT_SIZE, MAX_TEXT_SIZE + 1}}
CapVocab == {v \in VocabSizes : v > INITIAL_VOCAB_SIZE}

NextCap ==
    \/ \E t \in CapTexts, v \in CapVocab : TrainFresh(t, v)
    \/ TrainCount
    \/ TrainReturn
    \/ TrainMerge
    \/ \E t \in CapTexts : EncodeStart(t)
    \/ EncodeCount
    \/ EncodeMerge
    \/ DecodeEncoded
    \/ Release

SpecCap == Init /\ [][NextCap]_vars

====
